---- MODULE Spec2Model ----
\* Query resolution and ignore arbitration of ctxctx (cli.py, search.py,
\* ignore.py).  A Python str is modelled as a sequence of one-character
\* strings, so that split, normpath, relpath and fnmatch are computed
\* character by character as the library computes them (POSIX flavour).
EXTENDS Integers, Sequences, FiniteSets, TLC

VARIABLES
    queries,               \* args.queries (cli.py:103,110,174)
    profile_data,          \* args.profile and the queries of the profile (cli.py:88-103)
    config,                \* CONFIG: the keys read by main and IgnoreManager
    ignore_files,          \* the ignore-pattern files under the root
    dry_run,               \* args.dry_run
    pc,                    \* position of main: "args", "start", "loop", "done", "exit1"
    force_include_patterns,  \* the list main builds at cli.py:109-115
    ignore_manager,        \* the IgnoreManager constructed at cli.py:116
    qi,                    \* index of the next query of the loop at cli.py:174
    base_query_path,       \* find_matches local, last call (search.py:71,84)
    target_line_ranges,    \* find_matches local, last call (search.py:72,77)
    matches,               \* result of the last find_matches call (cli.py:177)
    consolidated_matches,  \* cli.py:172
    unique_matched_paths,  \* cli.py:167
    written_files          \* output files written by main (cli.py:327-337)

vars == <<queries, profile_data, config, ignore_files, dry_run, pc,
          force_include_patterns, ignore_manager, qi,
          base_query_path, target_line_ranges, matches,
          consolidated_matches, unique_matched_paths, written_files>>

-----------------------------------------------------------------------------
\* Python str operations

\* the characters of the model in code-point order (str comparison)
CharOrder ==
    <<" ", "!", "*", "+", ",", "-", ".", "/", "0", "1", "2", "3", "4", "5",
      "6", "7", "8", "9", ":", "?", "A", "S", "T", "U", "[", "]", "_", "a",
      "b", "c", "d", "e", "f", "g", "j", "k", "l", "m", "n", "o", "p", "r",
      "s", "t", "u", "x", "y", "z">>

Ord(c) == CHOOSE i \in 1..Len(CharOrder) : CharOrder[i] = c

\* s < t for two str (lexicographic by code point)
RECURSIVE StrLess(_, _)
StrLess(s, t) ==
    IF t = <<>> THEN FALSE
    ELSE IF s = <<>> THEN TRUE
    ELSE IF Head(s) = Head(t) THEN StrLess(Tail(s), Tail(t))
    ELSE Ord(Head(s)) < Ord(Head(t))

startswith(s, p) == Len(s) >= Len(p) /\ SubSeq(s, 1, Len(p)) = p

endswith(s, p) == Len(s) >= Len(p) /\ SubSeq(s, Len(s) - Len(p) + 1, Len(s)) = p

\* s[n:]
Drop(s, n) == SubSeq(s, n + 1, Len(s))

\* s.count(c) for a one-character c
count(s, c) == Cardinality({i \in 1..Len(s) : s[i] = c})

\* s.find(c) + 1 for a one-character c (0 when absent)
find(s, c) ==
    IF \E i \in 1..Len(s) : s[i] = c
    THEN CHOOSE i \in 1..Len(s) : s[i] = c /\ \A j \in 1..(i - 1) : s[j] # c
    ELSE 0

\* s.rfind(c) + 1
rfind(s, c) ==
    IF \E i \in 1..Len(s) : s[i] = c
    THEN CHOOSE i \in 1..Len(s) : s[i] = c /\ \A j \in (i + 1)..Len(s) : s[j] # c
    ELSE 0

\* s.split(c)
RECURSIVE split(_, _)
split(s, c) ==
    LET i == find(s, c)
    IN  IF i = 0 THEN <<s>>
        ELSE <<SubSeq(s, 1, i - 1)>> \o split(Drop(s, i), c)

\* s.split(c, 1)
split1(s, c) ==
    LET i == find(s, c)
    IN  IF i = 0 THEN <<s>> ELSE <<SubSeq(s, 1, i - 1), Drop(s, i)>>

\* c.join(parts)
RECURSIVE join(_, _)
join(parts, c) ==
    IF parts = <<>> THEN <<>>
    ELSE IF Len(parts) = 1 THEN parts[1]
    ELSE parts[1] \o <<c>> \o join(Tail(parts), c)

\* s.rstrip(c)
RECURSIVE rstrip(_, _)
rstrip(s, c) ==
    IF s # <<>> /\ s[Len(s)] = c THEN rstrip(SubSeq(s, 1, Len(s) - 1), c) ELSE s

\* s.strip(): leading and trailing white space removed
RECURSIVE lstrip_ws(_)
lstrip_ws(s) == IF s # <<>> /\ Head(s) = " " THEN lstrip_ws(Tail(s)) ELSE s

strip(s) == rstrip(lstrip_ws(s), " ")

\* s.lower()
lower_char(c) ==
    CASE c = "A" -> "a"
      [] c = "S" -> "s"
      [] c = "T" -> "t"
      [] c = "U" -> "u"
      [] OTHER -> c

lower(s) == [i \in 1..Len(s) |-> lower_char(s[i])]

\* sub in s
contains(s, sub) ==
    \E i \in 0..(Len(s) - Len(sub)) : SubSeq(s, i + 1, i + Len(sub)) = sub

\* the concatenation of a sequence of sequences
RECURSIVE Flatten(_)
Flatten(ss) == IF ss = <<>> THEN <<>> ELSE Head(ss) \o Flatten(Tail(ss))

\* sorted(S) for a finite set S of str
RECURSIVE SortStrs(_)
SortStrs(S) ==
    IF S = {} THEN <<>>
    ELSE LET m == CHOOSE x \in S : \A y \in S \ {x} : StrLess(x, y)
         IN  <<m>> \o SortStrs(S \ {m})

\* (a, b) < (c, d) for two tuples of int
RangeLess(r, q) == r[1] < q[1] \/ (r[1] = q[1] /\ r[2] < q[2])

\* sorted(S) for a finite set S of (start, end) tuples
RECURSIVE SortRanges(_)
SortRanges(S) ==
    IF S = {} THEN <<>>
    ELSE LET m == CHOOSE x \in S : \A y \in S \ {x} : RangeLess(x, y)
         IN  <<m>> \o SortRanges(S \ {m})

Range(s) == {s[i] : i \in 1..Len(s)}

-----------------------------------------------------------------------------
\* os.path (posixpath) and fnmatch

\* os.path.normpath
RECURSIVE NormComps(_, _, _)
NormComps(comps, new_comps, initial_slashes) ==
    IF comps = <<>> THEN new_comps
    ELSE LET comp == Head(comps)
             rest == Tail(comps)
         IN  IF comp = <<>> \/ comp = <<".">>
             THEN NormComps(rest, new_comps, initial_slashes)
             ELSE IF \/ comp # <<".", ".">>
                     \/ (initial_slashes = 0 /\ new_comps = <<>>)
                     \/ (new_comps # <<>> /\ new_comps[Len(new_comps)] = <<".", ".">>)
             THEN NormComps(rest, Append(new_comps, comp), initial_slashes)
             ELSE IF new_comps # <<>>
             THEN NormComps(rest, SubSeq(new_comps, 1, Len(new_comps) - 1), initial_slashes)
             ELSE NormComps(rest, new_comps, initial_slashes)

\* posixpath.normpath: the number of leading slashes it keeps
InitialSlashes(path) ==
    IF ~startswith(path, <<"/">>) THEN 0
    ELSE IF startswith(path, <<"/", "/">>) /\ ~startswith(path, <<"/", "/", "/">>)
    THEN 2 ELSE 1

\* posixpath.normpath: "path or dot"
OrDot(path) == IF path = <<>> THEN <<".">> ELSE path

NormWith(path, initial_slashes) ==
    OrDot([i \in 1..initial_slashes |-> "/"]
              \o join(NormComps(split(path, "/"), <<>>, initial_slashes), "/"))

normpath(path) ==
    IF path = <<>> THEN <<".">> ELSE NormWith(path, InitialSlashes(path))

\* the non-empty components of a path
PathParts(path) == SelectSeq(split(path, "/"), LAMBDA x : x # <<>>)

\* os.path.relpath(path, start) for absolute path and start
\* len(commonprefix([start_list, path_list]))
CommonPrefixLen(start_list, path_list) ==
    LET m == IF Len(start_list) < Len(path_list) THEN Len(start_list) ELSE Len(path_list)
    IN  IF \E k \in 1..m : start_list[k] # path_list[k]
        THEN (CHOOSE k \in 1..m : /\ start_list[k] # path_list[k]
                                  /\ \A j \in 1..(k - 1) : start_list[j] = path_list[j]) - 1
        ELSE m

\* [pardir] * (len(start_list) - i) + path_list[i:]
RelList(start_list, path_list, i) ==
    [k \in 1..(Len(start_list) - i) |-> <<".", ".">>]
        \o SubSeq(path_list, i + 1, Len(path_list))

RelFrom(start_list, path_list) ==
    OrDot(join(RelList(start_list, path_list, CommonPrefixLen(start_list, path_list)), "/"))

relpath(path, start) == RelFrom(PathParts(normpath(start)), PathParts(normpath(path)))

\* os.path.basename
basename(p) == Drop(p, rfind(p, "/"))

\* os.path.join(a, b)
path_join(a, b) ==
    IF startswith(b, <<"/">>) THEN b
    ELSE IF a = <<>> \/ endswith(a, <<"/">>) THEN a \o b
    ELSE a \o <<"/">> \o b

\* os.path.isabs
isabs(p) == startswith(p, <<"/">>)

\* fnmatch: the index in p (the pattern after an opening bracket) of the
\* bracket that closes the character class, 0 when the class is not closed
ClassEnd(p) ==
    LET j0 == IF Len(p) >= 1 /\ p[1] = "!" THEN 2 ELSE 1
        j1 == IF Len(p) >= j0 /\ p[j0] = "]" THEN j0 + 1 ELSE j0
    IN  IF \E j \in j1..Len(p) : p[j] = "]"
        THEN CHOOSE j \in j1..Len(p) : p[j] = "]" /\ \A k \in j1..(j - 1) : p[k] # "]"
        ELSE 0

\* whether character c is in the class written stuff (no ranges: the
\* patterns of the model hold no "-" inside a class)
InClass(c, stuff) ==
    IF Head(stuff) = "!" THEN c \notin Range(Tail(stuff)) ELSE c \in Range(stuff)

\* fnmatch.fnmatch(name, pat): "*" any run of characters (separators
\* included), "?" one character, "[seq]" a class, anything else itself
RECURSIVE fnmatch(_, _)
fnmatch(name, pat) ==
    IF pat = <<>> THEN name = <<>>
    ELSE LET c == Head(pat)
             rest == Tail(pat)
         IN  IF c = "*"
             THEN \E k \in 0..Len(name) : fnmatch(Drop(name, k), rest)
             ELSE IF c = "?"
             THEN name # <<>> /\ fnmatch(Tail(name), rest)
             ELSE IF c = "[" /\ ClassEnd(rest) # 0
             THEN /\ name # <<>>
                  /\ InClass(Head(name), SubSeq(rest, 1, ClassEnd(rest) - 1))
                  /\ fnmatch(Tail(name), Drop(rest, ClassEnd(rest)))
             ELSE name # <<>> /\ Head(name) = c /\ fnmatch(Tail(name), rest)

-----------------------------------------------------------------------------
\* int()

Digits == {"0", "1", "2", "3", "4", "5", "6", "7", "8", "9"}

DigitValue(c) == Ord(c) - Ord("0")

\* the literal of int(s) without white space and sign
IntBody(s) ==
    LET t == strip(s)
    IN  IF t # <<>> /\ Head(t) \in {"+", "-"} THEN Tail(t) ELSE t

\* whether int(s) returns (it raises ValueError otherwise): an optional sign,
\* then digits, single underscores allowed between digits
IsIntLiteral(s) ==
    LET u == IntBody(s)
    IN  /\ u # <<>>
        /\ \A i \in 1..Len(u) : u[i] \in Digits \cup {"_"}
        /\ u[1] \in Digits
        /\ u[Len(u)] \in Digits
        /\ \A i \in 1..(Len(u) - 1) : ~(u[i] = "_" /\ u[i + 1] = "_")

RECURSIVE DigitsValue(_, _)
DigitsValue(u, acc) ==
    IF u = <<>> THEN acc
    ELSE IF Head(u) = "_" THEN DigitsValue(Tail(u), acc)
    ELSE DigitsValue(Tail(u), 10 * acc + DigitValue(Head(u)))

\* int(s) for an s with IsIntLiteral(s)
IntValue(s) ==
    LET t == strip(s)
        v == DigitsValue(IntBody(s), 0)
    IN  IF Head(t) = "-" THEN 0 - v ELSE v

-----------------------------------------------------------------------------
\* search.py: _parse_line_ranges

\* the range test without the comparison of start and end
CheckedRangeAnyOrder(start, end) ==
    IF start <= 0 \/ end <= 0 THEN <<>> ELSE << <<start, end>> >>

\* search.py:24-32: the range appended for a start and an end, if any
CheckedRange(start, end) ==
    IF start <= 0 \/ end <= 0 \/ start > end THEN <<>> ELSE << <<start, end>> >>

\* search.py:22-38, from the two-or-not parts of a segment on
ParseParts(parts) ==
    IF Len(parts) # 2 THEN <<>>
    ELSE IF ~IsIntLiteral(parts[1]) \/ ~IsIntLiteral(parts[2]) THEN <<>>
    ELSE CheckedRange(IntValue(parts[1]), IntValue(parts[2]))

\* one pass of the loop body at search.py:21-38: the ranges this segment adds
ParseSegment(lr_str) == ParseParts(split(lr_str, ","))

RECURSIVE ParseLoop(_, _)
ParseLoop(individual_range_strs, parsed_ranges) ==
    IF individual_range_strs = <<>> THEN parsed_ranges
    ELSE ParseLoop(Tail(individual_range_strs),
                   parsed_ranges \o ParseSegment(Head(individual_range_strs)))

parse_line_ranges(ranges_str) ==
    IF ranges_str = <<>> THEN <<>>
    ELSE ParseLoop(split(ranges_str, ":"), <<>>)

-----------------------------------------------------------------------------
\* The file system: the files under the root /r and one file outside it

\* the force prefix (search.py:9)
FORCE_INCLUDE_PREFIX == <<"f", "o", "r", "c", "e", ":">>

N_a_py == <<"a", ".", "p", "y">>
N_u_py == <<"u", ".", "p", "y">>
N_l_js == <<"l", ".", "j", "s">>
N_z_py == <<"z", ".", "p", "y">>
D_r == <<"r">>
D_s == <<"s">>
D_t == <<"t">>
D_n == <<"n">>
D_o == <<"o">>
F_gitignore == <<".", "g">>
F_scriptignore == <<".", "c">>
F_extraignore == <<".", "d">>
N_a_py_abc == <<"a", ".", "p", "y", ":", "a", "b", "c">>

\* CONFIG["ROOT"], absolute and normalised (cli.py:85)
ROOT == <<"/">> \o D_r

\* the regular files, each as the list of its path components
BaseFiles ==
    { <<D_r, N_a_py>>,
      <<D_r, D_s, N_a_py>>,
      <<D_r, D_s, N_u_py>>,
      <<D_r, D_s, D_t, N_a_py>>,
      <<D_r, D_n, N_l_js>>,
      <<D_o, N_z_py>> }

\* the further files of the root, each with its lines: the ignore-pattern
\* files that exist, and in some runs a file whose name holds a colon
FsFiles(ifiles) == BaseFiles \cup { <<D_r, name>> : name \in DOMAIN ifiles }

PathStr(comps) == <<"/">> \o join(comps, "/")

IsPrefix(d, f) == Len(f) >= Len(d) /\ SubSeq(f, 1, Len(d)) = d

FsIsDir(files, d) == \E f \in files : Len(f) > Len(d) /\ IsPrefix(d, f)

\* os.scandir of directory d: the names of its files, of its directories
FsFilenames(files, d) ==
    { f[Len(d) + 1] : f \in { g \in files : Len(g) = Len(d) + 1 /\ IsPrefix(d, g) } }

FsDirnames(files, d) ==
    { f[Len(d) + 1] : f \in { g \in files : Len(g) > Len(d) + 1 /\ IsPrefix(d, g) } }

\* path resolution by the operating system: the components of the file or
\* directory that the str path names, or <<"?">> when there is none
RECURSIVE Resolve(_, _, _)
Resolve(files, cur, comps) ==
    IF comps = <<>> THEN [kind |-> "dir", at |-> cur]
    ELSE LET c == Head(comps)
             rest == Tail(comps)
         IN  IF c = <<>> \/ c = <<".">> THEN Resolve(files, cur, rest)
             ELSE IF c = <<".", ".">>
             THEN Resolve(files, IF cur = <<>> THEN cur ELSE SubSeq(cur, 1, Len(cur) - 1), rest)
             ELSE IF FsIsDir(files, Append(cur, c)) THEN Resolve(files, Append(cur, c), rest)
             ELSE IF Append(cur, c) \in files /\ rest = <<>>
             THEN [kind |-> "file", at |-> Append(cur, c)]
             ELSE [kind |-> "none", at |-> <<>>]

\* os.path.isfile, os.path.isdir, os.path.exists for an absolute path
Stat(files, path) == Resolve(files, <<>>, Tail(split(path, "/")))

isfile(files, path) == Stat(files, path).kind = "file"

isdir(files, path) == Stat(files, path).kind = "dir"

exists(files, path) == Stat(files, path).kind # "none"

-----------------------------------------------------------------------------
\* ignore.py: IgnoreManager

\* an ignore-pattern file is [lines |-> its lines, read_error |-> k]: reading
\* raises when the k-th line is read (k = 0: the file is read to its end)

\* the loop body at ignore.py:37-61: the patterns one line adds
LoadLine(raw_line) ==
    LET line == strip(raw_line)
    IN  IF line = <<>> \/ startswith(line, <<"#">>) THEN {}
        ELSE IF startswith(line, <<"/">>) THEN {Tail(line)}
        ELSE {line}

\* IgnoreManager._load_patterns_from_file for the file called name under the
\* root; the except clause keeps the patterns added before the error
load_patterns_from_file(ifiles, name) ==
    IF name \notin DOMAIN ifiles THEN {}
    ELSE LET f == ifiles[name]
             n == IF f.read_error = 0 THEN Len(f.lines) ELSE f.read_error - 1
         IN  UNION { LoadLine(f.lines[i]) : i \in 1..n }

\* IgnoreManager.init_ignore_set: the two rule sets it assigns
init_ignore_set(cfg, ifiles) ==
    [ explicit_ignore_set |->
          Range(cfg.EXPLICIT_IGNORE_NAMES)
              \cup load_patterns_from_file(ifiles, cfg.SCRIPT_DEFAULT_IGNORE_FILE)
              \cup (IF cfg.USE_GITIGNORE
                    THEN load_patterns_from_file(ifiles, cfg.GITIGNORE_PATH)
                    ELSE {})
              \cup UNION { load_patterns_from_file(ifiles, cfg.ADDITIONAL_IGNORE_FILENAMES[i]) :
                               i \in 1..Len(cfg.ADDITIONAL_IGNORE_FILENAMES) },
      substring_ignore_patterns |-> cfg.SUBSTRING_IGNORE_PATTERNS ]

\* IgnoreManager.__init__
IgnoreManager(cfg, root_path, force_patterns, ifiles) ==
    LET sets == init_ignore_set(cfg, ifiles)
    IN  [ root_path |-> root_path,
          explicit_ignore_set |-> sets.explicit_ignore_set,
          substring_ignore_patterns |-> sets.substring_ignore_patterns,
          force_include_patterns |-> force_patterns ]

\* the four tests of one normalised force-include pattern (ignore.py:87-117)
ForcePatternMatches(norm_pattern, norm_rel_path, base_name, rel_path_parts) ==
    \/ norm_pattern = norm_rel_path
    \/ fnmatch(norm_rel_path, norm_pattern)
    \/ fnmatch(base_name, norm_pattern)
    \/ \E i \in 1..Len(rel_path_parts) : fnmatch(rel_path_parts[i], norm_pattern)

\* the loop at ignore.py:84-119
ForceIncludedBy(patterns, norm_rel_path, base_name, rel_path_parts) ==
    \E i \in 1..Len(patterns) :
        ForcePatternMatches(normpath(patterns[i]), norm_rel_path, base_name, rel_path_parts)

\* ignore.py:82-119
ForceIncludedAs(patterns, norm_rel_path, base_name) ==
    ForceIncludedBy(patterns, norm_rel_path, base_name, split(norm_rel_path, "/"))

\* the force-include test left out
never_force_included(im, full_path) == FALSE

\* IgnoreManager._is_explicitly_force_included (relpath raises ValueError
\* only for the empty path)
is_explicitly_force_included(im, full_path) ==
    IF full_path = <<>> THEN FALSE
    ELSE ForceIncludedAs(im.force_include_patterns,
                         normpath(relpath(full_path, im.root_path)), basename(full_path))

\* the tests of an explicit-name pattern without the one on the segments
ExplicitPatternMatchesNoSegments(norm_p, rel_path, base_name, rel_path_parts) ==
    \/ norm_p = rel_path
    \/ norm_p = base_name
    \/ fnmatch(rel_path, norm_p)
    \/ fnmatch(base_name, norm_p)

\* the five tests of one normalised explicit-name pattern (ignore.py:180-186)
ExplicitPatternMatches(norm_p, rel_path, base_name, rel_path_parts) ==
    \/ norm_p = rel_path
    \/ norm_p = base_name
    \/ fnmatch(rel_path, norm_p)
    \/ fnmatch(base_name, norm_p)
    \/ \E i \in 1..Len(rel_path_parts) : fnmatch(rel_path_parts[i], norm_p)

\* the loop at ignore.py:175-190
ExplicitlyIgnoredBy(explicit_ignore_set, rel_path, base_name, rel_path_parts) ==
    \E p \in explicit_ignore_set :
        ExplicitPatternMatches(normpath(p), rel_path, base_name, rel_path_parts)

\* the substring test at ignore.py:192
SubstringMatches(patterns, rel_path) ==
    \E i \in 1..Len(patterns) : contains(lower(rel_path), lower(patterns[i]))

\* IgnoreManager.is_ignored

\* the rules applied to the root as to any other path
IgnoredAsRootToo(im, rel_path, base_name) ==
    IF ExplicitlyIgnoredBy(im.explicit_ignore_set, rel_path, base_name,
                           split(rel_path, "/"))
    THEN TRUE
    ELSE SubstringMatches(im.substring_ignore_patterns, rel_path)

\* ignore.py:169-198
IgnoredAs(im, rel_path, base_name) ==
    IF rel_path = <<".">> THEN FALSE
    ELSE IF ExplicitlyIgnoredBy(im.explicit_ignore_set, rel_path, base_name,
                                split(rel_path, "/"))
    THEN TRUE
    ELSE SubstringMatches(im.substring_ignore_patterns, rel_path)

\* is_ignored with the explicit-name and substring rules consulted before
\* the force-include patterns
is_ignored_rules_first(im, full_path) ==
    IF full_path = <<>> THEN TRUE
    ELSE IF IgnoredAs(im, relpath(full_path, im.root_path), basename(full_path)) THEN TRUE
    ELSE FALSE

is_ignored(im, full_path) ==
    IF is_explicitly_force_included(im, full_path) THEN FALSE
    ELSE IF full_path = <<>> THEN TRUE
    ELSE IgnoredAs(im, relpath(full_path, im.root_path), basename(full_path))

-----------------------------------------------------------------------------
\* search.py: find_matches

\* search.py:61-85: the base pattern and the line ranges of a query
\* the query taken as it is, the force prefix left on it
KeepForcePrefix(original_query) == original_query

\* search.py:61-68
StripForcePrefix(original_query) ==
    IF startswith(original_query, FORCE_INCLUDE_PREFIX)
    THEN Drop(original_query, Len(FORCE_INCLUDE_PREFIX))
    ELSE original_query

\* the fallback with the part before the first colon kept as the base
WithParsedRangesCoerced(query, query_parts, parsed_ranges) ==
    [base_query_path |-> query_parts[1], target_line_ranges |-> parsed_ranges]

\* search.py:77-85
WithParsedRanges(query, query_parts, parsed_ranges) ==
    IF parsed_ranges = <<>>
    THEN [base_query_path |-> query, target_line_ranges |-> <<>>]
    ELSE [base_query_path |-> query_parts[1], target_line_ranges |-> parsed_ranges]

\* search.py:71-85
SplitQuery(query, query_parts) ==
    IF Len(query_parts) > 1
    THEN WithParsedRanges(query, query_parts, parse_line_ranges(query_parts[2]))
    ELSE [base_query_path |-> query_parts[1], target_line_ranges |-> <<>>]

SplitStripped(query) == SplitQuery(query, split1(query, ":"))

ParseQuery(original_query) == SplitStripped(StripForcePrefix(original_query))

\* os.walk(top), top-down: the directories below and including d.  The
\* order of the entries of a directory is fixed to sorted order; the value
\* find_matches returns does not depend on it
RECURSIVE WalkDirs(_, _)
WalkDirs(files, d) ==
    LET subs == SortStrs(FsDirnames(files, d))
    IN  <<d>> \o Flatten([i \in 1..Len(subs) |-> WalkDirs(files, Append(d, subs[i]))])

\* search.py:100-111: the walk of an absolute directory query; dirpath is
\* the str os.walk yields for directory d
RECURSIVE AbsDirWalk(_, _, _, _, _)
AbsDirWalk(files, dirpath, d, base, search_max_depth) ==
    LET current_depth == count(Drop(dirpath, Len(base)), "/")
        filenames == SortStrs(FsFilenames(files, d))
        dirnames == SortStrs(FsDirnames(files, d))
        here == IF current_depth >= search_max_depth THEN <<>>
                ELSE [i \in 1..Len(filenames) |->
                         [path |-> path_join(dirpath, filenames[i]), line_ranges |-> <<>>]]
    IN  here \o Flatten([i \in 1..Len(dirnames) |->
                            AbsDirWalk(files, path_join(dirpath, dirnames[i]),
                                       Append(d, dirnames[i]), base, search_max_depth)])

\* search.py:88-111
AbsoluteMatches(files, base, ranges, search_max_depth) ==
    IF ~isabs(base) \/ ~exists(files, base) THEN <<>>
    ELSE IF isfile(files, base) THEN << [path |-> base, line_ranges |-> ranges] >>
    ELSE AbsDirWalk(files, base, Stat(files, base).at, base, search_max_depth)

\* search.py:132-141
is_dir_match(dirname, rel_path_dir, base) ==
    \/ rstrip(rel_path_dir, "/") = rstrip(base, "/")
    \/ dirname = rstrip(base, "/")
    \/ fnmatch(dirname, base)
    \/ fnmatch(rel_path_dir, base)

\* search.py:171-178
is_file_match(filename, rel_path_file, base) ==
    \/ normpath(base) = normpath(rel_path_file)
    \/ normpath(base) = normpath(filename)
    \/ fnmatch(filename, base)
    \/ fnmatch(rel_path_file, base)

\* the expansion with the files directly in the matched directory only
ExpandMatchedDirTopOnly(files, d, current_depth, search_max_depth) ==
    LET d_filenames == SortStrs(FsFilenames(files, d))
    IN  IF current_depth + 1 >= search_max_depth THEN <<>>
        ELSE [i \in 1..Len(d_filenames) |->
                 [path |-> path_join(PathStr(d), d_filenames[i]), line_ranges |-> <<>>]]

\* search.py:149-161: the files of a matched directory d, met in a
\* directory at depth current_depth
ExpandMatchedDir(files, d, current_depth, search_max_depth) ==
    LET full_path_dir == PathStr(d)
        below == WalkDirs(files, d)
        FilesOf(dd) ==
            LET d_dirpath == PathStr(dd)
                sub_depth_from_matched_dir == count(Drop(d_dirpath, Len(full_path_dir)), "/")
                total_depth == current_depth + 1 + sub_depth_from_matched_dir
                d_filenames == SortStrs(FsFilenames(files, dd))
            IN  IF total_depth >= search_max_depth THEN <<>>
                ELSE [i \in 1..Len(d_filenames) |->
                         [path |-> path_join(d_dirpath, d_filenames[i]), line_ranges |-> <<>>]]
    IN  Flatten([k \in 1..Len(below) |-> FilesOf(below[k])])

\* the walk going on into the matched directories as well
PrunedDirnamesNone(dirnames, dirpath, base) == dirnames

\* search.py:162: a matched directory is removed from dirnames, so that
\* os.walk does not descend into it
PrunedDirnames(dirnames, dirpath, base) ==
    SelectSeq(dirnames,
              LAMBDA n : ~is_dir_match(n, relpath(path_join(dirpath, n), ROOT), base))

\* the depth test with the limit itself still inside the walk
BeyondDepthInclusive(current_depth, search_max_depth, dirpath) ==
    current_depth > search_max_depth /\ dirpath # ROOT

\* search.py:118-124: the walk neither reads nor descends into dirpath
BeyondDepth(current_depth, search_max_depth, dirpath) ==
    current_depth >= search_max_depth /\ dirpath # ROOT

\* search.py:117-189: the walk of the root, from directory d on
RECURSIVE RootWalk(_, _, _, _, _)
RootWalk(files, d, base, ranges, search_max_depth) ==
    LET dirpath == PathStr(d)
        current_depth == count(Drop(dirpath, Len(ROOT)), "/")
        dirnames == SortStrs(FsDirnames(files, d))
        filenames == SortStrs(FsFilenames(files, d))
        DirMatched(dirname) ==
            is_dir_match(dirname, relpath(path_join(dirpath, dirname), ROOT), base)
        FileMatched(filename) ==
            is_file_match(filename, relpath(path_join(dirpath, filename), ROOT), base)
        from_dirs == Flatten([i \in 1..Len(dirnames) |->
                         IF DirMatched(dirnames[i])
                         THEN ExpandMatchedDir(files, Append(d, dirnames[i]),
                                               current_depth, search_max_depth)
                         ELSE <<>>])
        from_files == Flatten([i \in 1..Len(filenames) |->
                         IF FileMatched(filenames[i])
                         THEN << [path |-> path_join(dirpath, filenames[i]),
                                  line_ranges |-> ranges] >>
                         ELSE <<>>])
        kept == PrunedDirnames(dirnames, dirpath, base)
    IN  IF BeyondDepth(current_depth, search_max_depth, dirpath) THEN <<>>
        ELSE from_dirs \o from_files
                 \o Flatten([i \in 1..Len(kept) |->
                        RootWalk(files, Append(d, kept[i]), base, ranges, search_max_depth)])

\* search.py:59-189: every candidate, whatever its ignore status
RawMatches(files, base, ranges, search_max_depth) ==
    AbsoluteMatches(files, base, ranges, search_max_depth)
        \o RootWalk(files, PathParts(ROOT), base, ranges, search_max_depth)

\* the filter with a candidate dropped also when a directory above it is
\* ignored, as a walk pruned by ignore status would do
FilterMatchesPruned(im, raw_matches) ==
    SelectSeq(raw_matches,
              LAMBDA m : \A k \in 1..Len(m.path) :
                             (k = Len(m.path) \/ (k > 1 /\ m.path[k + 1] = "/"))
                                 => ~is_ignored(im, SubSeq(m.path, 1, k)))

\* search.py:193-201
FilterMatches(im, raw_matches) ==
    SelectSeq(raw_matches, LAMBDA m : ~is_ignored(im, m.path))

\* the merge with an empty list, a whole-file request, winning over ranges
CombineRangesKeepWhole(existing_line_ranges, current_line_ranges) ==
    IF existing_line_ranges = <<>> \/ current_line_ranges = <<>> THEN <<>>
    ELSE SortRanges(Range(existing_line_ranges \o current_line_ranges))

\* the merge without the set and the sort
CombineRangesAppend(existing_line_ranges, current_line_ranges) ==
    existing_line_ranges \o current_line_ranges

\* the merge with the ranges collapsed into the one range that spans them
CombineRangesSpan(existing_line_ranges, current_line_ranges) ==
    LET all == Range(existing_line_ranges \o current_line_ranges)
    IN  IF all = {} THEN <<>>
        ELSE << << CHOOSE a \in {r[1] : r \in all} : \A r \in all : a <= r[1],
                   CHOOSE b \in {r[2] : r \in all} : \A r \in all : r[2] <= b >> >>

\* sorted(set(existing + current)) (search.py:218-219, cli.py:214-219)
CombineRanges(existing_line_ranges, current_line_ranges) ==
    SortRanges(Range(existing_line_ranges \o current_line_ranges))

\* search.py:204-220 and cli.py:204-219: one match added to a dict of
\* path -> line ranges
AddMatch(unique, match) ==
    IF match.path \notin DOMAIN unique
    THEN [p \in DOMAIN unique \cup {match.path} |->
             IF p = match.path THEN match.line_ranges ELSE unique[p]]
    ELSE [unique EXCEPT ![match.path] = CombineRanges(@, match.line_ranges)]

RECURSIVE AddMatches(_, _)
AddMatches(unique, ms) ==
    IF ms = <<>> THEN unique ELSE AddMatches(AddMatch(unique, Head(ms)), Tail(ms))

EmptyDict == [p \in {} |-> <<>>]

\* the entries in descending order of their paths
SortedByPathDescending(unique) ==
    LET paths == SortStrs(DOMAIN unique)
        n == Len(paths)
    IN  [i \in 1..n |-> [path |-> paths[n + 1 - i], line_ranges |-> unique[paths[n + 1 - i]]]]

\* search.py:222
SortedByPath(unique) ==
    LET paths == SortStrs(DOMAIN unique)
    IN  [i \in 1..Len(paths) |-> [path |-> paths[i], line_ranges |-> unique[paths[i]]]]

find_matches(query, files, im, search_max_depth) ==
    LET pq == ParseQuery(query)
        raw_matches == RawMatches(files, pq.base_query_path, pq.target_line_ranges,
                                  search_max_depth)
    IN  SortedByPath(AddMatches(EmptyDict, FilterMatches(im, raw_matches)))

-----------------------------------------------------------------------------
\* Inputs of a run: command lines, configurations, ignore-pattern files

\* queries
Q_a_py == <<"a", ".", "p", "y">>  \* 'a.py'
Q_a_py_1_5 == <<"a", ".", "p", "y", ":", "1", ",", "5">>  \* 'a.py:1,5'
Q_a_py_10_20_1_5 == <<"a", ".", "p", "y", ":", "1", "0", ",", "2", "0", ":", "1", ",", "5">>  \* 'a.py:10,20:1,5'
Q_a_py_1_5_1_5 == <<"a", ".", "p", "y", ":", "1", ",", "5", ":", "1", ",", "5">>  \* 'a.py:1,5:1,5'
Q_a_py_5_15_10_20 == <<"a", ".", "p", "y", ":", "5", ",", "1", "5", ":", "1", "0", ",", "2", "0">>  \* 'a.py:5,15:10,20'
Q_a_py_abc == <<"a", ".", "p", "y", ":", "a", "b", "c">>  \* 'a.py:abc'
Q_a_py_1_5_x == <<"a", ".", "p", "y", ":", "1", ",", "5", ":", "x">>  \* 'a.py:1,5:x'
Q_star_py == <<"*", ".", "p", "y">>  \* '*.py'
Q_star_js == <<"*", ".", "j", "s">>  \* '*.js'
Q_star == <<"*">>  \* '*'
Q_star_1_5 == <<"*", ":", "1", ",", "5">>  \* '*:1,5'
Q_s_slash == <<"s", "/">>  \* 's/'
Q_s_1_5 == <<"s", ":", "1", ",", "5">>  \* 's:1,5'
Q_s_t_a_py == <<"s", "/", "t", "/", "a", ".", "p", "y">>  \* 's/t/a.py'
Q_n == <<"n">>  \* 'n'
Q_force_n_l_js == <<"f", "o", "r", "c", "e", ":", "n", "/", "l", ".", "j", "s">>  \* 'force:n/l.js'
Q_force_n_slash == <<"f", "o", "r", "c", "e", ":", "n", "/">>  \* 'force:n/'
Q_force_s_a_py_1_5 == <<"f", "o", "r", "c", "e", ":", "s", "/", "a", ".", "p", "y", ":", "1", ",", "5">>  \* 'force:s/a.py:1,5'
Q_force_s_t_a_py == <<"f", "o", "r", "c", "e", ":", "s", "/", "t", "/", "a", ".", "p", "y">>  \* 'force:s/t/a.py'
Q_force_star_py == <<"f", "o", "r", "c", "e", ":", "*", ".", "p", "y">>  \* 'force:*.py'
Q_force_class_py == <<"f", "o", "r", "c", "e", ":", "[", "a", "]", ".", "p", "y">>  \* 'force:[a].py'
Q_abs_s == <<"/", "r", "/", "s">>  \* '/r/s'
Q_abs_a_py_1_5 == <<"/", "r", "/", "a", ".", "p", "y", ":", "1", ",", "5">>  \* '/r/a.py:1,5'
Q_abs_outside == <<"/", "o", "/", "z", ".", "p", "y">>  \* '/o/z.py'

\* ignore patterns
P_n == <<"n">>  \* 'n'
P_t_slash == <<"t", "/">>  \* 't/'
P_star_js == <<"*", ".", "j", "s">>  \* '*.js'
P_s_a_py == <<"s", "/", "a", ".", "p", "y">>  \* 's/a.py'
P_U_dot == <<"U", ".">>  \* 'U.'
P_slash_T == <<"/", "T">>  \* '/T'

\* lines of an ignore file
L_anchored_a_py == <<"/", "a", ".", "p", "y">>  \* '/a.py'
L_comment == <<"#", " ", "c">>  \* '# c'
L_blank == <<" ">>  \* ' '
L_t_slash == <<" ", "t", "/", " ">>  \* ' t/ '

\* line-range segments
G_1_5 == <<"1", ",", "5">>  \* '1,5'
G_10_20 == <<"1", "0", ",", "2", "0">>  \* '10,20'
G_5_1 == <<"5", ",", "1">>  \* '5,1'
G_0_5 == <<"0", ",", "5">>  \* '0,5'
G_neg == <<"-", "1", ",", "5">>  \* '-1,5'
G_abc == <<"a", "b", "c">>  \* 'abc'
G_three == <<"1", ",", "2", ",", "3">>  \* '1,2,3'
G_empty == <<>>  \* ''
G_spaced == <<" ", "2", ",", "+", "3">>  \* ' 2,+3'

\* CONFIG of one run
Config(explicit, substring, depth, cap) ==
    [ ROOT |-> ROOT,
      EXPLICIT_IGNORE_NAMES |-> explicit,
      SUBSTRING_IGNORE_PATTERNS |-> substring,
      SCRIPT_DEFAULT_IGNORE_FILE |-> F_scriptignore,
      USE_GITIGNORE |-> TRUE,
      GITIGNORE_PATH |-> F_gitignore,
      ADDITIONAL_IGNORE_FILENAMES |-> <<F_extraignore>>,
      SEARCH_MAX_DEPTH |-> depth,
      MAX_MATCHES_PER_QUERY |-> cap,
      OUTPUT_FORMATS |-> <<"md", "json">> ]

\* bounds of the model
MaxQueries == 2
MaxSearchDepth == 3
MaxSegments == 2
MaxRules == 2

NoIgnoreFiles == [n \in {} |-> 0]

GitignoreOnly == [n \in {F_gitignore} |->
                     [lines |-> <<L_anchored_a_py, L_comment, L_blank, L_t_slash>>,
                      read_error |-> 0]]

\* a .gitignore whose reading raises at its second line, after the line
\* 't/' is read, and a readable additional ignore file with the line 'n'
BrokenGitignore ==
    [n \in {F_gitignore, F_extraignore} |->
        IF n = F_gitignore
        THEN [lines |-> <<L_t_slash, L_comment>>, read_error |-> 2]
        ELSE [lines |-> <<P_n>>, read_error |-> 0]]

\* no ignore-pattern file, and a file 'a.py:abc' in the root
ColonFile == [n \in {N_a_py_abc} |-> [lines |-> <<>>, read_error |-> 0]]

\* sequences over S of length lo..hi
SeqsOf(S, lo, hi) == UNION { [1..n -> S] : n \in lo..hi }

-----------------------------------------------------------------------------
\* cli.py: main

\* cli.py:88-107: with --profile, the queries of the profile are appended to
\* those of the command line; config is the CONFIG the profile leaves, and
\* the profile is one that loads
LoadProfile ==
    /\ pc = "args"
    /\ queries' = IF profile_data.given THEN queries \o profile_data.queries ELSE queries
    /\ pc' = "start"
    /\ UNCHANGED <<profile_data, config, ignore_files, dry_run,
                   force_include_patterns, ignore_manager, qi,
                   base_query_path, target_line_ranges, matches,
                   consolidated_matches, unique_matched_paths, written_files>>

\* the patterns of the first query only
ForceIncludePatternsOfFirst(qs) ==
    IF qs # <<>> /\ startswith(qs[1], FORCE_INCLUDE_PREFIX)
    THEN << split1(Drop(qs[1], Len(FORCE_INCLUDE_PREFIX)), ":")[1] >>
    ELSE <<>>

\* cli.py:109-115
ForceIncludePatterns(qs) ==
    LET forced == SelectSeq(qs, LAMBDA q : startswith(q, FORCE_INCLUDE_PREFIX))
    IN  [i \in 1..Len(forced) |->
            split1(Drop(forced[i], Len(FORCE_INCLUDE_PREFIX)), ":")[1]]

\* cli.py:109-172: the force patterns are collected from all the queries
\* and the IgnoreManager is constructed
Construct ==
    /\ pc = "start"
    /\ force_include_patterns' = ForceIncludePatterns(queries)
    /\ ignore_manager' = IgnoreManager(config, config.ROOT,
                                       ForceIncludePatterns(queries), ignore_files)
    /\ qi' = 1
    /\ pc' = "loop"
    /\ UNCHANGED <<queries, profile_data, config, ignore_files, dry_run,
                   base_query_path, target_line_ranges, matches,
                   consolidated_matches, unique_matched_paths, written_files>>

\* the cap test with the cap itself already too many
TooManyMatchesInclusive(found, cap) == Len(found) >= cap

\* cli.py:188: the test that raises TooManyMatchesError
TooManyMatches(found, cap) == Len(found) > cap

\* the branches with an empty result raising like one over the cap
QueryOutcomeEmptyStops(found, cap) ==
    IF found = <<>> \/ TooManyMatches(found, cap) THEN "stop" ELSE "use"

\* cli.py:184-197: what main does with the result of find_matches: "skip"
\* (warning and continue), "stop" (TooManyMatchesError) or "use"
QueryOutcome(found, cap) ==
    IF found = <<>> THEN "skip"
    ELSE IF TooManyMatches(found, cap) THEN "stop"
    ELSE "use"

\* the set with the path of the first match only added to it
WithFirstPathOf(unique_paths, found) ==
    IF found = <<>> THEN unique_paths ELSE unique_paths \cup {found[1].path}

\* cli.py:198-220: unique_matched_paths.add(path) for every match of the query
WithPathsOf(unique_paths, found) ==
    unique_paths \cup {found[i].path : i \in 1..Len(found)}

\* cli.py:229: list(consolidated_matches.values()), as a set of entries
all_matched_files_data(consolidated) ==
    { [path |-> p, line_ranges |-> consolidated[p]] : p \in DOMAIN consolidated }

\* cli.py:291: the files_included_count of the JSON output
files_included_count(unique_paths) == Cardinality(unique_paths)

\* cli.py:174-227: one pass of the query loop
ProcessQuery ==
    /\ pc = "loop"
    /\ qi <= Len(queries)
    /\ LET query == queries[qi]
           pq == ParseQuery(query)
           found == find_matches(query, FsFiles(ignore_files), ignore_manager,
                                 config.SEARCH_MAX_DEPTH)
           outcome == QueryOutcome(found, config.MAX_MATCHES_PER_QUERY)
       IN  /\ base_query_path' = pq.base_query_path
           /\ target_line_ranges' = pq.target_line_ranges
           /\ matches' = found
           /\ IF outcome = "skip"
              THEN /\ qi' = qi + 1
                   /\ UNCHANGED <<pc, consolidated_matches, unique_matched_paths>>
              ELSE IF outcome = "stop"
              THEN /\ pc' = "exit1"
                   /\ UNCHANGED <<qi, consolidated_matches, unique_matched_paths>>
              ELSE /\ consolidated_matches' = AddMatches(consolidated_matches, found)
                   /\ unique_matched_paths' = WithPathsOf(unique_matched_paths, found)
                   /\ qi' = qi + 1
                   /\ UNCHANGED pc
    /\ UNCHANGED <<queries, profile_data, config, ignore_files, dry_run,
                   force_include_patterns, ignore_manager, written_files>>

\* the files written whether or not the run is a dry run
WrittenFilesAlways(is_dry_run, output_formats) ==
    { output_format \in Range(output_formats) : output_format \in {"md", "json"} }

\* cli.py:318-343: the output files main writes, each named by its format:
\* none in a dry run, and otherwise one for each configured format that is
\* 'md' or 'json' (no file is opened for another format)
WrittenFiles(is_dry_run, output_formats) ==
    IF is_dry_run THEN {}
    ELSE { output_format \in Range(output_formats) : output_format \in {"md", "json"} }

\* cli.py:229-354: the output is built and, unless --dry-run, written
Finish ==
    /\ pc = "loop"
    /\ qi > Len(queries)
    /\ written_files' = WrittenFiles(dry_run, config.OUTPUT_FORMATS)
    /\ pc' = "done"
    /\ UNCHANGED <<queries, profile_data, config, ignore_files, dry_run,
                   force_include_patterns, ignore_manager, qi,
                   base_query_path, target_line_ranges, matches,
                   consolidated_matches, unique_matched_paths>>

Next == LoadProfile \/ Construct \/ ProcessQuery \/ Finish

\* the state of main when the arguments are parsed
InitLocals ==
    /\ pc = "args"
    /\ force_include_patterns = <<>>
    /\ ignore_manager = [root_path |-> ROOT, explicit_ignore_set |-> {},
                         substring_ignore_patterns |-> <<>>,
                         force_include_patterns |-> <<>>]
    /\ qi = 0
    /\ base_query_path = <<>>
    /\ target_line_ranges = <<>>
    /\ matches = <<>>
    /\ consolidated_matches = EmptyDict
    /\ unique_matched_paths = {}
    /\ written_files = {}

\* the command lines of Spec: one query of RunQueries, or two to MaxQueries
\* queries of MergeQueries
RunQueries ==
    { Q_a_py, Q_a_py_1_5, Q_a_py_10_20_1_5, Q_a_py_1_5_1_5, Q_a_py_5_15_10_20,
      Q_a_py_abc, Q_a_py_1_5_x, Q_star_py, Q_star_js, Q_star, Q_s_slash, Q_s_1_5,
      Q_s_t_a_py, Q_n, Q_force_n_l_js, Q_force_n_slash, Q_force_s_a_py_1_5,
      Q_abs_s, Q_abs_a_py_1_5, Q_abs_outside, Q_star_1_5 }

MergeQueries ==
    { Q_a_py, Q_a_py_10_20_1_5, Q_a_py_5_15_10_20, Q_star_js, Q_force_n_l_js }

\* the set-ups of Spec: explicit names, substring patterns, match cap and
\* ignore-pattern files
RunSetups ==
    { [explicit |-> <<P_n>>, substring |-> <<>>, cap |-> 9, ifiles |-> NoIgnoreFiles],
      [explicit |-> <<P_n, P_t_slash>>, substring |-> <<P_U_dot>>, cap |-> 9,
       ifiles |-> NoIgnoreFiles],
      [explicit |-> <<>>, substring |-> <<>>, cap |-> 2, ifiles |-> GitignoreOnly],
      [explicit |-> <<P_star_js>>, substring |-> <<>>, cap |-> 2, ifiles |-> NoIgnoreFiles] }

MergeSetups ==
    { [explicit |-> <<P_n>>, substring |-> <<>>, cap |-> 9, ifiles |-> NoIgnoreFiles],
      [explicit |-> <<>>, substring |-> <<>>, cap |-> 2, ifiles |-> GitignoreOnly] }

\* no --profile; a profile with the queries qs
NoProfile == [given |-> FALSE, queries |-> <<>>]

Profile(qs) == [given |-> TRUE, queries |-> qs]

\* a run of main on one of the command lines, set-ups and depths given
InitRun(command_lines, setups, depths, dry_runs) ==
    /\ queries \in command_lines
    /\ profile_data = NoProfile
    /\ \E setup \in setups, depth \in depths :
           /\ config = Config(setup.explicit, setup.substring, depth, setup.cap)
           /\ ignore_files = setup.ifiles
    /\ dry_run \in dry_runs
    /\ InitLocals

\* a run with --profile: one query on the command line, and a profile with
\* no query or with one
ProfileCommandQueries == { Q_a_py, Q_star_py, Q_s_t_a_py }

ProfileQueries == { Q_force_n_l_js, Q_star_js, Q_a_py }

ProfileSetups ==
    MergeSetups
        \cup { [explicit |-> <<P_star_js>>, substring |-> <<>>, cap |-> 2,
                ifiles |-> NoIgnoreFiles],
               [explicit |-> <<P_s_a_py>>, substring |-> <<>>, cap |-> 9,
                ifiles |-> BrokenGitignore] }

InitProfileRun ==
    /\ queries \in SeqsOf(ProfileCommandQueries, 1, 1)
    /\ profile_data \in { Profile(qs) : qs \in SeqsOf(ProfileQueries, 0, 1) }
    /\ \E setup \in ProfileSetups :
           /\ config = Config(setup.explicit, setup.substring, MaxSearchDepth, setup.cap)
           /\ ignore_files = setup.ifiles
    /\ dry_run = FALSE
    /\ InitLocals

\* runs that vary OUTPUT_FORMATS, with and without --dry-run: one query
\* that matches a file, several files or nothing, or two queries
OutputQueries == { <<Q_a_py>>, <<Q_star_py>>, <<Q_n>>, <<Q_a_py_1_5, Q_star_js>> }

OutputFormats == { <<>>, <<"md">>, <<"json">>, <<"json", "md">>, <<"txt", "md">> }

InitOutputRun ==
    /\ queries \in OutputQueries
    /\ profile_data = NoProfile
    /\ \E output_formats \in OutputFormats :
           config = [Config(<<P_n>>, <<>>, MaxSearchDepth, 9)
                         EXCEPT !.OUTPUT_FORMATS = output_formats]
    /\ ignore_files = NoIgnoreFiles
    /\ dry_run \in BOOLEAN
    /\ InitLocals

Init ==
    \/ InitRun(SeqsOf(RunQueries, 1, 1), RunSetups, 0..MaxSearchDepth, BOOLEAN)
    \/ InitRun(SeqsOf(MergeQueries, 2, MaxQueries), MergeSetups, {MaxSearchDepth}, {FALSE})
    \/ InitProfileRun
    \/ InitOutputRun

Spec == Init /\ [][Next]_vars

-----------------------------------------------------------------------------
\* Runs that vary the ignore policy: one query, up to MaxRules explicit
\* names from a pool, at most one substring pattern, with or without a
\* .gitignore

IgnoreQueries ==
    { Q_star, Q_force_n_l_js, Q_force_n_slash, Q_force_s_a_py_1_5,
      Q_force_s_t_a_py, Q_force_star_py, Q_force_class_py }

RulePool == { P_n, P_t_slash, P_star_js, P_s_a_py }

IgnoreSetups ==
    { [explicit |-> e, substring |-> sub, cap |-> 9, ifiles |-> f] :
          e \in SeqsOf(RulePool, 0, MaxRules),
          sub \in {<<>>, <<P_slash_T>>},
          f \in {NoIgnoreFiles, GitignoreOnly} }

InitIgnore == InitRun(SeqsOf(IgnoreQueries, 1, 1), IgnoreSetups, {MaxSearchDepth}, {FALSE})

SpecIgnore == InitIgnore /\ [][Next]_vars

-----------------------------------------------------------------------------
\* Runs that vary the line-range suffix: one query 'a.py:' followed by one
\* to MaxSegments segments, with or without the force prefix

Segments ==
    { G_1_5, G_10_20, G_5_1, G_0_5, G_neg, G_abc, G_three, G_empty, G_spaced }

RangeQuery(prefix, segs) == prefix \o Q_a_py \o <<":">> \o join(segs, ":")

ParseQueries ==
    { RangeQuery(prefix, segs) : prefix \in {<<>>, FORCE_INCLUDE_PREFIX},
                                 segs \in SeqsOf(Segments, 1, MaxSegments) }

ParseSetups ==
    { [explicit |-> <<P_n>>, substring |-> <<>>, cap |-> 9, ifiles |-> f] :
          f \in {NoIgnoreFiles, ColonFile} }

InitParse == InitRun(SeqsOf(ParseQueries, 1, 1), ParseSetups, {MaxSearchDepth}, {FALSE})

SpecParse == InitParse /\ [][Next]_vars

-----------------------------------------------------------------------------
\* An IgnoreManager in the hands of a caller that keeps the configuration and
\* the force-pattern list it constructed it with, as test_tree.py:140-158
\* does: the caller changes the configuration, extends its list, has the
\* manager re-initialised and resolves queries with it.  pc is "policy".

P_s_t_a_py == <<"s", "/", "t", "/", "a", ".", "p", "y">>  \* 's/t/a.py'
P_n_l_js == <<"n", "/", "l", ".", "j", "s">>  \* 'n/l.js'
P_r == <<"r">>  \* 'r', the name of the root directory
P_star == <<"*">>  \* '*'
P_dot == <<".">>  \* '.'

\* the names a caller adds to each key of the configuration
ConfigAdditions ==
    [ EXPLICIT_IGNORE_NAMES |-> {P_t_slash, P_dot},
      SUBSTRING_IGNORE_PATTERNS |-> {P_slash_T, P_dot} ]

\* the patterns a caller adds to its force-pattern list
ForceAdditions == { P_s_t_a_py }

PolicyQueries == { Q_star, Q_star_js }

\* the manager when its caller appends p to the list: a manager with a list
\* of its own
AppendedToCallersListCopied(im, p) == im

\* ignore.py:21-23: the manager keeps the caller's list itself, not a copy of
\* it, so an append to the list by the caller is an append to the manager's
\* force_include_patterns
AppendedToCallersList(im, p) ==
    [im EXCEPT !.force_include_patterns = Append(@, p)]

\* test_tree.py:157: the caller appends a name to a list of the configuration
\* object; the manager's rule sets are copies (ignore.py:123-124)
ChangeConfig ==
    /\ pc = "policy"
    /\ \E key \in DOMAIN ConfigAdditions : \E p \in ConfigAdditions[key] :
           /\ p \notin Range(config[key])
           /\ config' = [config EXCEPT ![key] = Append(@, p)]
    /\ UNCHANGED <<queries, profile_data, ignore_files, dry_run, pc,
                   force_include_patterns, ignore_manager, qi,
                   base_query_path, target_line_ranges, matches,
                   consolidated_matches, unique_matched_paths, written_files>>

\* the caller appends a pattern to the list it gave to the constructor
ExtendForceList ==
    /\ pc = "policy"
    /\ \E p \in ForceAdditions :
           /\ p \notin Range(force_include_patterns)
           /\ force_include_patterns' = Append(force_include_patterns, p)
           /\ ignore_manager' = AppendedToCallersList(ignore_manager, p)
    /\ UNCHANGED <<queries, profile_data, config, ignore_files, dry_run, pc, qi,
                   base_query_path, target_line_ranges, matches,
                   consolidated_matches, unique_matched_paths, written_files>>

\* test_tree.py:158: ignore_manager.init_ignore_set() assigns the two rule
\* sets of the manager anew from self.config, the caller's configuration
\* object (ignore.py:17,121-141)
ReInitIgnoreSet ==
    /\ pc = "policy"
    /\ LET sets == init_ignore_set(config, ignore_files)
       IN  ignore_manager' =
               [ignore_manager EXCEPT
                    !.explicit_ignore_set = sets.explicit_ignore_set,
                    !.substring_ignore_patterns = sets.substring_ignore_patterns]
    /\ UNCHANGED <<queries, profile_data, config, ignore_files, dry_run, pc,
                   force_include_patterns, qi,
                   base_query_path, target_line_ranges, matches,
                   consolidated_matches, unique_matched_paths, written_files>>

\* the caller resolves a query with the manager's is_ignored
ResolveWithPolicy ==
    /\ pc = "policy"
    /\ \E query \in PolicyQueries :
           LET pq == ParseQuery(query)
           IN  /\ base_query_path' = pq.base_query_path
               /\ target_line_ranges' = pq.target_line_ranges
               /\ matches' = find_matches(query, FsFiles(ignore_files), ignore_manager,
                                          config.SEARCH_MAX_DEPTH)
    /\ UNCHANGED <<queries, profile_data, config, ignore_files, dry_run, pc,
                   force_include_patterns, ignore_manager, qi,
                   consolidated_matches, unique_matched_paths, written_files>>

NextPolicy == ChangeConfig \/ ExtendForceList \/ ReInitIgnoreSet \/ ResolveWithPolicy

\* the state after IgnoreManager(config, root, force_include_patterns)
InitPolicy ==
    /\ queries = <<>>
    /\ profile_data = NoProfile
    /\ \E explicit \in {<<>>, <<P_n>>, <<P_r>>, <<P_star>>},
          f \in {NoIgnoreFiles, GitignoreOnly} :
           /\ config = Config(explicit, <<>>, MaxSearchDepth, 9)
           /\ ignore_files = f
    /\ dry_run = FALSE
    /\ pc = "policy"
    /\ force_include_patterns \in {<<>>, <<P_n_l_js>>}
    /\ ignore_manager = IgnoreManager(config, config.ROOT, force_include_patterns,
                                      ignore_files)
    /\ qi = 0
    /\ base_query_path = <<>>
    /\ target_line_ranges = <<>>
    /\ matches = <<>>
    /\ consolidated_matches = EmptyDict
    /\ unique_matched_paths = {}
    /\ written_files = {}

SpecPolicy == InitPolicy /\ [][NextPolicy]_vars

-----------------------------------------------------------------------------
\* Properties

\* find_matches has returned for at least one query of the run
Called == pc = "exit1" \/ qi > 1

\* the IgnoreManager of the run is constructed
Constructed == pc \notin {"args", "start"}

MatchPaths(ms) == { ms[i].path : i \in 1..Len(ms) }

Files == FsFiles(ignore_files)

RootFiles == { f \in Files : Head(f) = D_r }

Path_a_py == PathStr(<<D_r, N_a_py>>)
Path_s == PathStr(<<D_r, D_s>>)
Path_s_a_py == PathStr(<<D_r, D_s, N_a_py>>)
Path_s_u_py == PathStr(<<D_r, D_s, N_u_py>>)
Path_s_t == PathStr(<<D_r, D_s, D_t>>)
Path_s_t_a_py == PathStr(<<D_r, D_s, D_t, N_a_py>>)
Path_n == PathStr(<<D_r, D_n>>)
Path_n_l_js == PathStr(<<D_r, D_n, N_l_js>>)
Path_z_py == PathStr(<<D_o, N_z_py>>)

\* the candidates of the last query, before the filter
LastRawMatches ==
    RawMatches(Files, base_query_path, target_line_ranges, config.SEARCH_MAX_DEPTH)

\* C1: the paths find_matches returns are exactly the candidates of the
\* query (name-matched, within the depth limit) that is_ignored rejects
\* not: no returned path is ignored, every returned path is a candidate,
\* and no candidate that is not ignored is missing, whatever the ignore
\* status of the directories above it
C1_ReturnsExactlyNotIgnoredCandidates ==
    Called =>
        /\ \A p \in MatchPaths(matches) : ~is_ignored(ignore_manager, p)
        /\ MatchPaths(matches) \subseteq MatchPaths(LastRawMatches)
        /\ \A p \in MatchPaths(LastRawMatches) :
               ~is_ignored(ignore_manager, p) => p \in MatchPaths(matches)

\* a glob query returns a force-included file beneath an ignored directory,
\* and leaves out a candidate that is ignored
C1_Witness ==
    /\ Called
    /\ base_query_path = Q_star_js
    /\ is_ignored(ignore_manager, Path_n)
    /\ Path_n_l_js \in MatchPaths(matches)
    /\ ignore_manager.force_include_patterns # <<>>

\* the depth of a file: the number of directories between the root and it
Depth(f) == Len(f) - 2

\* file f of the root is matched by name: as a file, or through a
\* directory above it that matches
NameMatched(f, base) ==
    \/ is_file_match(f[Len(f)], relpath(PathStr(f), ROOT), base)
    \/ \E k \in 2..(Len(f) - 1) :
           is_dir_match(f[k], relpath(PathStr(SubSeq(f, 1, k)), ROOT), base)

\* the files a query with a relative base is expected to return when a
\* file at depth d is within the limit iff WithinLimit(d, max_depth)
ExpectedPaths(WithinLimit(_, _)) ==
    { PathStr(f) : f \in { g \in RootFiles :
                              /\ NameMatched(g, base_query_path)
                              /\ ~is_ignored(ignore_manager, PathStr(g))
                              /\ WithinLimit(Depth(g), config.SEARCH_MAX_DEPTH) } }

WithinInclusive(d, max_depth) == d <= max_depth

WithinExclusive(d, max_depth) == d = 0 \/ d < max_depth

\* C4 as stated: a matching file at depth d is returned when
\* d <= max_depth and left out when d > max_depth
C4_DepthInclusive ==
    (Called /\ ~isabs(base_query_path)) =>
        MatchPaths(matches) = ExpectedPaths(WithinInclusive)

\* C4 amended: a matching file at depth d is returned when d = 0 or
\* d < max_depth and left out otherwise; with max_depth = 1 the file
\* root/a/file.txt is left out, with max_depth = 2 it is returned and
\* root/a/b/file.txt is left out
C4_DepthExclusive ==
    (Called /\ ~isabs(base_query_path)) =>
        MatchPaths(matches) = ExpectedPaths(WithinExclusive)

\* with max_depth = 2, the file one level down is returned and the file two
\* levels down is not
C4_Witness ==
    /\ Called
    /\ config.SEARCH_MAX_DEPTH = 2
    /\ base_query_path = Q_a_py
    /\ Path_a_py \in MatchPaths(matches)
    /\ Path_s_a_py \in MatchPaths(matches)
    /\ Path_s_t_a_py \notin MatchPaths(matches)

\* what find_matches returns for each query of the run
QueryMatches ==
    [i \in 1..Len(queries) |->
        find_matches(queries[i], Files, ignore_manager, config.SEARCH_MAX_DEPTH)]

\* the line ranges of path p in a list of matches that holds p
RangesOf(ms, p) == ms[CHOOSE i \in 1..Len(ms) : ms[i].path = p].line_ranges

\* the queries of the run that matched p as a whole file, with line ranges
WholeFileQueries(p) ==
    { i \in 1..Len(queries) :
          p \in MatchPaths(QueryMatches[i]) /\ RangesOf(QueryMatches[i], p) = <<>> }

SubRangeQueries(p) ==
    { i \in 1..Len(queries) :
          p \in MatchPaths(QueryMatches[i]) /\ RangesOf(QueryMatches[i], p) # <<>> }

\* the (start, end) pairs the queries of the run matched p with
SubRanges(p) == UNION { Range(RangesOf(QueryMatches[i], p)) : i \in SubRangeQueries(p) }

\* C5 as stated: when one query matched p as a whole file and another with
\* sub-ranges, the consolidated entry of p is not narrowed to the sub-ranges
C5_WholeFileKept ==
    pc = "done" =>
        \A p \in DOMAIN consolidated_matches :
            (WholeFileQueries(p) # {} /\ SubRangeQueries(p) # {})
                => Range(consolidated_matches[p]) # SubRanges(p)

\* C5 amended: when one query matched p as a whole file and another with
\* sub-ranges, in either order, the consolidated entry of p holds exactly
\* the sub-ranges, sorted and without duplicates: the whole-file request
\* is narrowed to them
C5_WholeFileNarrowed ==
    pc = "done" =>
        \A p \in DOMAIN consolidated_matches :
            (WholeFileQueries(p) # {} /\ SubRangeQueries(p) # {})
                => consolidated_matches[p] = SortRanges(SubRanges(p))

\* the whole-file query came first and the entry holds the sub-ranges only
C5_Witness ==
    /\ pc = "done"
    /\ queries = <<Q_a_py, Q_a_py_10_20_1_5>>
    /\ Path_a_py \in DOMAIN consolidated_matches
    /\ consolidated_matches[Path_a_py] = << <<1, 5>>, <<10, 20>> >>

\* a list of line ranges is sorted ascending and holds no pair twice
SortedNoDuplicates(rs) == \A i, j \in 1..Len(rs) : i < j => RangeLess(rs[i], rs[j])

\* C6: after all the queries of a run, every entry of the consolidated
\* mapping is sorted ascending and holds no (start, end) pair twice
C6_EntriesSortedNoDuplicates ==
    pc = "done" =>
        \A p \in DOMAIN consolidated_matches : SortedNoDuplicates(consolidated_matches[p])

\* the orders in which the queries qs can be given
QueryOrders(qs) ==
    { [i \in 1..Len(qs) |-> qs[f[i]]] :
          f \in { g \in [1..Len(qs) -> 1..Len(qs)] :
                      \A a, b \in 1..Len(qs) : g[a] = g[b] => a = b } }

\* the consolidated mapping of a run of main on the queries qs
RECURSIVE ConsolidateFrom(_, _, _)
ConsolidateFrom(qs, im, acc) ==
    IF qs = <<>> THEN acc
    ELSE ConsolidateFrom(Tail(qs), im,
                         AddMatches(acc, find_matches(Head(qs), Files, im,
                                                      config.SEARCH_MAX_DEPTH)))

RunResult(qs) ==
    ConsolidateFrom(qs, IgnoreManager(config, config.ROOT, ForceIncludePatterns(qs),
                                      ignore_files),
                    EmptyDict)

\* C7: a run in which no query exceeds the match cap ends with the same
\* matched paths and, for each path, the same line-range list as the run
\* on any permutation of its queries
C7_ConsolidationCommutative ==
    pc = "done" =>
        \A qs \in QueryOrders(queries) :
            /\ RunResult(qs) = consolidated_matches
            /\ DOMAIN RunResult(qs) = unique_matched_paths

\* two queries with ranges for the same file, merged
C7_Witness ==
    /\ pc = "done"
    /\ queries = <<Q_a_py_10_20_1_5, Q_a_py_5_15_10_20>>
    /\ Path_a_py \in DOMAIN consolidated_matches
    /\ consolidated_matches[Path_a_py] = << <<1, 5>>, <<5, 15>>, <<10, 20>> >>

\* query i names the file of the root at p itself, not a directory above it
FileLevelMatch(base, f) ==
    IF isabs(base) THEN base = PathStr(f)
    ELSE /\ Head(f) = D_r
         /\ is_file_match(f[Len(f)], relpath(PathStr(f), ROOT), base)
         /\ \A k \in 2..(Len(f) - 1) :
                ~is_dir_match(f[k], relpath(PathStr(SubSeq(f, 1, k)), ROOT), base)

\* the valid (start, end) pairs query q requests for the file f
RequestedPairs(q, f) ==
    IF FileLevelMatch(ParseQuery(q).base_query_path, f)
    THEN Range(ParseQuery(q).target_line_ranges)
    ELSE {}

\* C8: at the end of a run the set of (start, end) pairs held for a path is
\* the union of the valid pairs requested for it by the queries that
\* matched it; overlapping ranges stay distinct
C8_RangesAreUnionOfRequested ==
    pc = "done" =>
        /\ DOMAIN consolidated_matches
               = UNION { MatchPaths(QueryMatches[i]) : i \in 1..Len(queries) }
        /\ \A f \in Files :
               PathStr(f) \in DOMAIN consolidated_matches =>
                   Range(consolidated_matches[PathStr(f)])
                       = UNION { RequestedPairs(queries[i], f) :
                                     i \in { j \in 1..Len(queries) :
                                                 PathStr(f) \in MatchPaths(QueryMatches[j]) } }

\* overlapping ranges of two queries are all held, none merged
C8_Witness ==
    /\ pc = "done"
    /\ queries = <<Q_a_py_5_15_10_20, Q_a_py_10_20_1_5>>
    /\ Path_a_py \in DOMAIN consolidated_matches
    /\ Range(consolidated_matches[Path_a_py]) = { <<1, 5>>, <<5, 15>>, <<10, 20>> }

\* the files and directories of the file system, the root among them
AllPaths ==
    UNION { { PathStr(SubSeq(f, 1, k)) : k \in 1..Len(f) } : f \in Files }

InRootPaths == { p \in AllPaths : startswith(p, ROOT \o <<"/">>) }

\* pattern pat, as written, matches the path with relative path rel and
\* basename base: exact relative path, glob against the relative path, glob
\* against the basename, glob against any segment
ForceWays(pat, rel, base) ==
    \/ pat = rel
    \/ fnmatch(rel, pat)
    \/ fnmatch(base, pat)
    \/ \E i \in 1..Len(split(rel, "/")) : fnmatch(split(rel, "/")[i], pat)

MatchesForcePattern(p) ==
    \/ \E i \in 1..Len(ignore_manager.force_include_patterns) :
           ForceWays(ignore_manager.force_include_patterns[i],
                     relpath(p, ignore_manager.root_path), basename(p))
    \/ is_explicitly_force_included(ignore_manager, p)

\* C2: a path that matches a force-include pattern is not ignored, whatever
\* explicit-name and substring rules match it as well
C2_ForceIncludeWins ==
    Constructed =>
        \A p \in AllPaths : MatchesForcePattern(p) => ~is_ignored(ignore_manager, p)

\* a force-included file that an explicit name and a substring pattern match
C2_Witness ==
    /\ Constructed
    /\ MatchesForcePattern(Path_s_t_a_py)
    /\ P_t_slash \in ignore_manager.explicit_ignore_set
    /\ ExplicitlyIgnoredBy(ignore_manager.explicit_ignore_set,
                           relpath(Path_s_t_a_py, ROOT), N_a_py,
                           split(relpath(Path_s_t_a_py, ROOT), "/"))
    /\ SubstringMatches(ignore_manager.substring_ignore_patterns,
                        relpath(Path_s_t_a_py, ROOT))
    /\ ~is_ignored(ignore_manager, Path_s_t_a_py)

\* rule pat matches the path with relative path rel and basename base: equal
\* to the relative path, equal to the basename, glob against the relative
\* path, glob against the basename, glob against any segment
ExplicitWays(pat, rel, base) ==
    \/ pat = rel
    \/ pat = base
    \/ fnmatch(rel, pat)
    \/ fnmatch(base, pat)
    \/ \E i \in 1..Len(split(rel, "/")) : fnmatch(split(rel, "/")[i], pat)

\* the relative path holds a substring pattern, compared case-insensitively
SubstringWay(rel) ==
    \E i \in 1..Len(ignore_manager.substring_ignore_patterns) :
        contains(lower(rel), lower(ignore_manager.substring_ignore_patterns[i]))

\* C3 as stated: a path inside the root, not the root, that no force-include
\* pattern matches is ignored iff an explicit-name rule, as written, matches
\* it in one of the five ways or its relative path holds a substring pattern
C3_IgnoredIffRuleAsWritten ==
    Constructed =>
        \A p \in InRootPaths :
            ~is_explicitly_force_included(ignore_manager, p) =>
                (is_ignored(ignore_manager, p)
                    <=> \/ \E pat \in ignore_manager.explicit_ignore_set :
                               ExplicitWays(pat, relpath(p, ROOT), basename(p))
                        \/ SubstringWay(relpath(p, ROOT)))

\* C3 amended: a path inside the root, not the root, that no force-include
\* pattern matches is ignored iff an explicit-name rule, normalised with
\* os.path.normpath (which drops a trailing separator), matches it in
\* one of the five ways or its relative path holds a substring pattern
C3_IgnoredIffNormalisedRule ==
    Constructed =>
        \A p \in InRootPaths :
            ~is_explicitly_force_included(ignore_manager, p) =>
                (is_ignored(ignore_manager, p)
                    <=> \/ \E pat \in ignore_manager.explicit_ignore_set :
                               ExplicitWays(normpath(pat), relpath(p, ROOT), basename(p))
                        \/ SubstringWay(relpath(p, ROOT)))

\* a rule written with a trailing separator ignores the directory of that
\* name and the file below it, another rule ignores a directory by its
\* name, a substring pattern in another case matches too, and two other
\* files are not ignored
C3_Witness ==
    /\ Constructed
    /\ ignore_manager.explicit_ignore_set = {P_t_slash, P_n}
    /\ ignore_manager.substring_ignore_patterns = <<P_slash_T>>
    /\ ignore_manager.force_include_patterns = <<>>
    /\ is_ignored(ignore_manager, Path_s_t)
    /\ is_ignored(ignore_manager, Path_s_t_a_py)
    /\ is_ignored(ignore_manager, Path_n_l_js)
    /\ SubstringWay(relpath(Path_s_t_a_py, ROOT))
    /\ ~is_ignored(ignore_manager, Path_s_a_py)
    /\ ~is_ignored(ignore_manager, Path_a_py)

\* the segments of the line-range suffix of the query of the run
SuffixSegments == split(split1(StripForcePrefix(queries[1]), ":")[2], ":")

\* the pair a segment stands for when it has the form 'start,end' with
\* positive integers and start <= end, as int() reads them
ValidPair(seg) ==
    CASE seg = G_1_5 -> << <<1, 5>> >>
      [] seg = G_10_20 -> << <<10, 20>> >>
      [] seg = G_spaced -> << <<2, 3>> >>
      [] OTHER -> <<>>

ValidPairs == Flatten([i \in 1..Len(SuffixSegments) |-> ValidPair(SuffixSegments[i])])

C10_AnyInvalidSegmentDiscardsRanges ==
    Called =>
        IF \E i \in 1..Len(SuffixSegments) : ValidPair(SuffixSegments[i]) = <<>>
        THEN /\ target_line_ranges = <<>>
             /\ base_query_path = StripForcePrefix(queries[1])
        ELSE /\ target_line_ranges = ValidPairs
             /\ base_query_path = Q_a_py

\* the query of the run after the force prefix, colon and suffix included
StrippedQuery == StripForcePrefix(queries[1])

Path_a_py_abc == PathStr(<<D_r, N_a_py_abc>>)

\* C11: a query whose suffix after the first colon holds no valid segment
\* is resolved with the whole string, colon included, as its base and with
\* no line ranges: it returns exactly the files, not ignored and within the
\* depth limit, that this string matches by name, each with empty line
\* ranges, and it does not return the file named before the colon
C11_NoValidSegmentIsLiteralQuery ==
    (Called /\ ValidPairs = <<>>) =>
        /\ base_query_path = StrippedQuery
        /\ target_line_ranges = <<>>
        /\ MatchPaths(matches) =
               { PathStr(f) : f \in { g \in RootFiles :
                                         /\ NameMatched(g, StrippedQuery)
                                         /\ ~is_ignored(ignore_manager, PathStr(g))
                                         /\ WithinExclusive(Depth(g), config.SEARCH_MAX_DEPTH) } }
        /\ \A i \in 1..Len(matches) : matches[i].line_ranges = <<>>
        /\ Path_a_py \notin MatchPaths(matches)

\* 'a.py:abc' in a root that holds a.py and a file called 'a.py:abc'
C11_Witness ==
    /\ Called
    /\ queries[1] = Q_a_py_abc
    /\ N_a_py_abc \in DOMAIN ignore_files
    /\ matches = << [path |-> Path_a_py_abc, line_ranges |-> <<>>] >>

\* the directories beneath the root
RootDirs == UNION { { SubSeq(f, 1, k) : k \in 2..(Len(f) - 1) } : f \in RootFiles }

\* the query names directory d: by its relative path or its name, a
\* trailing separator of the query aside, or by a glob on either
DirNamedBy(d, base) ==
    LET rel == join(Tail(d), "/")
        dirname == d[Len(d)]
    IN  \/ rel = rstrip(base, "/")
        \/ dirname = rstrip(base, "/")
        \/ fnmatch(dirname, base)
        \/ fnmatch(rel, base)

\* C12: when the query names a directory, every file beneath it that is
\* not ignored and lies within the depth limit (in a directory at a depth
\* below the limit) is returned, no other file beneath it is, and each one
\* returned has an empty line-range list, whether or not the query carried
\* line ranges
C12_DirectoryQueryExpands ==
    (Called /\ ~isabs(base_query_path)) =>
        \A d \in RootDirs :
            DirNamedBy(d, base_query_path) =>
                \A f \in { g \in RootFiles : Len(g) > Len(d) /\ IsPrefix(d, g) } :
                    /\ PathStr(f) \in MatchPaths(matches) <=>
                           /\ ~is_ignored(ignore_manager, PathStr(f))
                           /\ Depth(f) < config.SEARCH_MAX_DEPTH
                    /\ PathStr(f) \in MatchPaths(matches) =>
                           RangesOf(matches, PathStr(f)) = <<>>

\* 's:1,5' where s holds a.py, the ignored u.py and the ignored directory t
C12_Witness ==
    /\ Called
    /\ queries[1] = Q_s_1_5
    /\ base_query_path = D_s
    /\ target_line_ranges = << <<1, 5>> >>
    /\ is_ignored(ignore_manager, Path_s_t_a_py)
    /\ is_ignored(ignore_manager, Path_s_u_py)
    /\ matches = << [path |-> Path_s_a_py, line_ranges |-> <<>>] >>

IsForceQuery(q) == startswith(q, FORCE_INCLUDE_PREFIX)

\* the text of a force query between the prefix and its first colon
ForcedBase(q) ==
    LET rest == Drop(q, Len(FORCE_INCLUDE_PREFIX))
        colons == { k \in 1..Len(rest) : rest[k] = ":" }
    IN  IF colons = {} THEN rest
        ELSE SubSeq(rest, 1, (CHOOSE k \in colons : \A m \in colons : k <= m) - 1)

\* the files of the root that a force query names by their relative path
ForcedFiles(q) == { f \in RootFiles : join(Tail(f), "/") = ForcedBase(q) }

LastQuery == queries[IF pc = "exit1" THEN qi ELSE qi - 1]

\* the policy of the run without its force-include patterns
PolicyWithoutForce == [ignore_manager EXCEPT !.force_include_patterns = <<>>]

\* path p matches the pattern of some force query of the run
ForcedByAnyQuery(p) ==
    \E j \in 1..Len(queries) :
        /\ IsForceQuery(queries[j])
        /\ ForceWays(normpath(ForcedBase(queries[j])),
                     normpath(relpath(p, ROOT)), basename(p))

\* the explicit-name and substring rules of the run match path p
IgnoredByRules(p) == IgnoredAs(ignore_manager, relpath(p, ROOT), basename(p))

\* C14 as stated: what a query without the force prefix returns is what it
\* returns under the rules alone, whatever force queries the run holds
C14_ForceIsPerQuery ==
    (Called /\ ~IsForceQuery(LastQuery)) =>
        matches = find_matches(LastQuery, Files, PolicyWithoutForce, config.SEARCH_MAX_DEPTH)

\* C14 amended: the force patterns of a run hold for every query of the
\* run: a query, with or without the force prefix, returns exactly those of
\* its candidates that match the pattern of some force query of the run
\* or that no explicit-name or substring rule matches
C14_ForceIsPerRun ==
    Called =>
        MatchPaths(matches) =
            { p \in MatchPaths(LastRawMatches) : ForcedByAnyQuery(p) \/ ~IgnoredByRules(p) }

\* queries '*.js' and 'force:n/l.js', n an explicit ignore name: the query
\* '*.js' itself returns n/l.js
C14_Witness ==
    /\ queries = <<Q_star_js, Q_force_n_l_js>>
    /\ pc = "loop"
    /\ qi = 2
    /\ IgnoredByRules(Path_n_l_js)
    /\ matches = << [path |-> Path_n_l_js, line_ranges |-> <<>>] >>

\* C15: for a force query, the pattern registered in the ignore policy is
\* the base pattern find_matches uses for the query, whether or not the
\* query has a colon suffix and whether or not the suffix parses as line
\* ranges
C15_RegisteredPatternIsBase ==
    (Called /\ IsForceQuery(LastQuery)) =>
        ignore_manager.force_include_patterns = <<base_query_path>>

\* path p lies under the root
UnderRoot(p) == startswith(p, ROOT \o <<"/">>)

\* C16: is_ignored is true of every path outside the root that matches no
\* force-include pattern, and find_matches returns no file outside the
\* root, also for an absolute query that names a file or directory outside
\* the root
C16_OutOfTreeNeverSurfaced ==
    /\ Constructed =>
           \A p \in AllPaths :
               (~UnderRoot(p) /\ p # ROOT /\ ~MatchesForcePattern(p)) =>
                   is_ignored(ignore_manager, p)
    /\ Called => \A p \in MatchPaths(matches) : UnderRoot(p)

\* the names that the lines of the ignore files of the run anchor to the
\* root: the lines that begin with a separator, without it
AnchoredNames ==
    UNION { { Tail(strip(ignore_files[n].lines[i])) :
                  i \in { k \in 1..Len(ignore_files[n].lines) :
                              startswith(strip(ignore_files[n].lines[k]), <<"/">>) } } :
            n \in DOMAIN ignore_files }

\* the policy of the run without the explicit-name rule nm
PolicyWithoutRule(nm) ==
    [ignore_manager EXCEPT !.explicit_ignore_set = @ \ {nm}]

\* C17: a line '/foo' of an ignore file makes root/foo ignored, and does not
\* make a file or directory called foo in a subdirectory ignored: such a
\* path is ignored only if another rule matches it
C17_LeadingSeparatorAnchors ==
    Constructed =>
        \A nm \in AnchoredNames :
            /\ ~MatchesForcePattern(path_join(ROOT, nm)) =>
                   is_ignored(ignore_manager, path_join(ROOT, nm))
            /\ \A p \in InRootPaths :
                   ( /\ basename(p) = nm
                     /\ relpath(p, ROOT) # nm
                     /\ ~MatchesForcePattern(p)
                     /\ ~IgnoredAs(PolicyWithoutRule(nm), relpath(p, ROOT), basename(p)) )
                       => ~is_ignored(ignore_manager, p)

\* the paths on which the two matchers are compared: the files and
\* directories under the root, and two paths whose last segment holds the
\* characters of a character class
Path_class_py == PathStr(<<D_r, <<"[", "a", "]", ".", "p", "y">> >>)
Path_s_class_py == PathStr(<<D_r, D_s, <<"[", "a", "]", ".", "p", "y">> >>)

ProbePaths == InRootPaths \cup {Path_class_py, Path_s_class_py}

\* pattern pat used as the only force-include pattern matches path x
MatchesAsForce(pat, x) ==
    is_explicitly_force_included(
        [ignore_manager EXCEPT !.force_include_patterns = <<pat>>], x)

\* pattern pat used as the only rule matches path x
MatchesAsExplicit(pat, x) ==
    IgnoredAs([ignore_manager EXCEPT !.explicit_ignore_set = {pat},
                                     !.substring_ignore_patterns = <<>>],
              relpath(x, ROOT), basename(x))

\* C18: a pattern of the policy of the run matches a path under the root
\* as a force-include pattern if and only if it matches it as an
\* explicit-name rule
C18_ForceAndExplicitMatchAlike ==
    Constructed =>
        \A pat \in Range(ignore_manager.force_include_patterns)
                      \cup ignore_manager.explicit_ignore_set :
            \A x \in ProbePaths : MatchesAsForce(pat, x) <=> MatchesAsExplicit(pat, x)

\* C19: a query with more matches than MAX_MATCHES_PER_QUERY ends the run
\* with exit status 1: its matches are not consolidated (the consolidated
\* mapping is that of the queries before it), no later query is resolved
\* (every query resolved before the current one was within the cap), and no
\* output file is written; a query within the cap, the cap itself
\* included, does not end the run
C19_MatchCapIsHardStop ==
    /\ Called =>
           (pc = "exit1" <=> Len(matches) > config.MAX_MATCHES_PER_QUERY)
    /\ pc = "exit1" =>
           /\ written_files = {}
           /\ consolidated_matches =
                  ConsolidateFrom(SubSeq(queries, 1, qi - 1), ignore_manager, EmptyDict)
           /\ unique_matched_paths = DOMAIN consolidated_matches
    /\ Constructed =>
           \A i \in 1..(qi - 1) :
               Len(QueryMatches[i]) <= config.MAX_MATCHES_PER_QUERY
    /\ (Called /\ Len(matches) = config.MAX_MATCHES_PER_QUERY /\ pc # "exit1") =>
           MatchPaths(matches) \subseteq DOMAIN consolidated_matches

\* 's/t/a.py' with one match, then 'a.py' with three matches under a cap
\* of two: the run has stopped with the match of the first query
\* consolidated, none of the second, and nothing written
C19_Witness ==
    /\ pc = "exit1"
    /\ queries = <<Q_s_t_a_py, Q_a_py>>
    /\ qi = 2
    /\ Len(matches) = 3
    /\ config.MAX_MATCHES_PER_QUERY = 2
    /\ DOMAIN consolidated_matches = {Path_s_t_a_py}
    /\ written_files = {}

\* C20: a query for which find_matches returns the empty list leaves the
\* consolidated mapping and the set of unique matched paths as they are
\* and does not end the run: main goes on to the next query, and a run that
\* has stopped with exit status 1 has not stopped on an empty result
C20_NoMatchIsNotAnError ==
    [][ /\ ( /\ pc = "loop"
             /\ qi \in 1..Len(queries)
             /\ find_matches(queries[qi], Files, ignore_manager,
                             config.SEARCH_MAX_DEPTH) = <<>> )
           => /\ matches' = <<>>
              /\ consolidated_matches' = consolidated_matches
              /\ unique_matched_paths' = unique_matched_paths
              /\ pc' = "loop"
              /\ qi' = qi + 1
        /\ pc' = "exit1" => matches' # <<>> ]_vars

\* '*.js' finds nothing that is not ignored, the query 'a.py' behind it is
\* resolved and the run completes with the matches of 'a.py' alone
C20_Witness ==
    /\ pc = "done"
    /\ queries = <<Q_star_js, Q_a_py>>
    /\ QueryMatches[1] = <<>>
    /\ DOMAIN consolidated_matches = {Path_a_py, Path_s_a_py, Path_s_t_a_py}
    /\ unique_matched_paths = DOMAIN consolidated_matches
    /\ written_files # {}

\* the ignore files of the run that are read to their end
ReadableIgnoreFiles == { n \in DOMAIN ignore_files : ignore_files[n].read_error = 0 }

\* the names of the ignore files that the configuration of the run names
ConfiguredIgnoreFiles ==
    {config.SCRIPT_DEFAULT_IGNORE_FILE}
        \cup (IF config.USE_GITIGNORE THEN {config.GITIGNORE_PATH} ELSE {})
        \cup Range(config.ADDITIONAL_IGNORE_FILENAMES)

\* the patterns of the lines of ignore file n: the lines stripped, blank and
\* comment lines left out, a leading separator removed
PatternsOfLines(n) ==
    { IF Head(l) = "/" THEN Tail(l) ELSE l :
          l \in { strip(ignore_files[n].lines[i]) : i \in 1..Len(ignore_files[n].lines) }
                    \ { t \in { strip(ignore_files[n].lines[i]) :
                                    i \in 1..Len(ignore_files[n].lines) } :
                             t = <<>> \/ Head(t) = "#" } }

\* C21: an ignore file that cannot be read to its end contributes no
\* pattern, also when lines of it were read before the error; the policy is
\* constructed all the same, with the names of the configuration and the
\* patterns of the ignore files that are read to their end; a file that does
\* not exist contributes nothing
C21_UnreadableFileContributesNothing ==
    Constructed =>
        ignore_manager.explicit_ignore_set =
            Range(config.EXPLICIT_IGNORE_NAMES)
                \cup UNION { PatternsOfLines(n) :
                                 n \in ConfiguredIgnoreFiles \cap ReadableIgnoreFiles }

\* the two rule sets that init_ignore_set assigns, as the manager holds them
RuleSetsOf(im) ==
    [ explicit_ignore_set |-> im.explicit_ignore_set,
      substring_ignore_patterns |-> im.substring_ignore_patterns ]

RootSpellings == { ROOT, ROOT \o <<"/">>, ROOT \o <<"/", ".">> }

\* C23: whatever the explicit names, substring patterns and force-include
\* patterns of the policy are, rules that match the root's own name or '.'
\* included, is_ignored(root) is false
C23_RootIsNeverIgnored ==
    pc = "policy" => \A root \in RootSpellings : ~is_ignored(ignore_manager, root)

\* the policy holds an explicit name and a substring pattern that match the
\* relative path '.' of the root, it ignores every file of the tree, and the
\* last query resolved with it returned nothing
C23_Witness ==
    /\ pc = "policy"
    /\ P_dot \in ignore_manager.explicit_ignore_set
    /\ P_dot \in Range(ignore_manager.substring_ignore_patterns)
    /\ ignore_manager.force_include_patterns = <<>>
    /\ \A f \in BaseFiles : is_ignored(ignore_manager, PathStr(f))
    /\ base_query_path = Q_star
    /\ matches = <<>>
    /\ ~is_ignored(ignore_manager, ROOT)

\* the candidates of the last query that the filter keeps, in walk order
LastFiltered == FilterMatches(ignore_manager, LastRawMatches)

\* what the entry of path p carries for the candidates ms: the ranges of
\* its candidate when there is one, and the union of the ranges of its
\* candidates, as a sorted list without repetition, when there are several
MergedRanges(ms, p) ==
    LET idx == { i \in 1..Len(ms) : ms[i].path = p }
    IN  IF Cardinality(idx) = 1
        THEN ms[CHOOSE i \in idx : TRUE].line_ranges
        ELSE SortRanges(UNION { Range(ms[i].line_ranges) : i \in idx })

\* the list ms is in strictly ascending order of path, so holds no path twice
StrictlyAscending(ms) ==
    \A i \in 1..(Len(ms) - 1) : StrLess(ms[i].path, ms[i + 1].path)

\* the list res is the result for the candidates ms
ResultFor(res, ms) ==
    /\ StrictlyAscending(res)
    /\ MatchPaths(res) = MatchPaths(ms)
    /\ \A i \in 1..Len(res) : res[i].line_ranges = MergedRanges(ms, res[i].path)

\* C24: what find_matches returns is in ascending order of path and holds
\* each path once, the paths being those of the candidates the filter keeps
\* and each entry carrying the ranges of its candidates, their union when
\* there are several; the same holds of the consolidation of search.py:203-222
\* when every candidate is listed twice
C24_ResultSortedOnePerPath ==
    Called =>
        /\ ResultFor(matches, LastFiltered)
        /\ ResultFor(SortedByPath(AddMatches(EmptyDict, LastFiltered \o LastFiltered)),
                     LastFiltered \o LastFiltered)

\* the query '*.py' has four candidates, which the walk meets in another
\* order than that of their paths
C24_Witness ==
    /\ Called
    /\ base_query_path = Q_star_py
    /\ Len(matches) = 4
    /\ [i \in 1..4 |-> matches[i].path] # [i \in 1..Len(LastFiltered) |-> LastFiltered[i].path]

\* C26: in a run started with --dry-run no output file is written, at any
\* moment of the run, whatever the queries and the configured output formats
C26_DryRunWritesNothing ==
    dry_run => written_files = {}

\* a dry run with two queries and the formats json and md has come to its
\* end with files in its output
C26_Witness ==
    /\ dry_run
    /\ pc = "done"
    /\ Len(queries) = 2
    /\ config.OUTPUT_FORMATS = <<"json", "md">>
    /\ Path_a_py \in DOMAIN consolidated_matches
    /\ written_files = {}

\* the files of the root beneath a directory that the base pattern matches
InsideMatchedDir(base) ==
    { f \in RootFiles :
          \E k \in 2..(Len(f) - 1) : DirNamedBy(SubSeq(f, 1, k), base) }

\* C27: a file beneath a directory that matches the base pattern is a
\* candidate at most once, with an empty line-range list, also when its own
\* name matches the pattern and the query carries line ranges: it comes
\* from the expansion of the directory and from nowhere else
C27_MatchedDirectoryExpandedOnce ==
    (Called /\ ~isabs(base_query_path)) =>
        LET raw == LastRawMatches
        IN  \A f \in InsideMatchedDir(base_query_path) :
                LET at == { i \in 1..Len(raw) : raw[i].path = PathStr(f) }
                IN  /\ Cardinality(at) <= 1
                    /\ \A i \in at : raw[i].line_ranges = <<>>
                    /\ PathStr(f) \in MatchPaths(matches) =>
                           RangesOf(matches, PathStr(f)) = <<>>

\* '*:1,5' matches the directory s and the names of the files in it: a.py
\* of the root carries the range, the files beneath s are returned without
\* it
C27_Witness ==
    /\ Called
    /\ base_query_path = Q_star
    /\ target_line_ranges = << <<1, 5>> >>
    /\ [path |-> Path_a_py, line_ranges |-> << <<1, 5>> >>] \in Range(matches)
    /\ [path |-> Path_s_a_py, line_ranges |-> <<>>] \in Range(matches)
    /\ [path |-> Path_s_t_a_py, line_ranges |-> <<>>] \in Range(matches)

\* file f of the root is returned through the expansion of a directory: one
\* the base pattern matches, or one that the absolute base names
FromDirectoryExpansion(f, base) ==
    IF isabs(base) THEN isdir(Files, base) ELSE f \in InsideMatchedDir(base)

\* C28: a file that the expansion of a directory returns is within the
\* depth limit counted from the root, that is, where a file query with the
\* same limit reaches (depth 0, or a depth below the limit), for a directory
\* matched during the walk and for a directory under the root named by an
\* absolute path
C28_ExpansionWithinDepthFromRoot ==
    Called =>
        \A f \in RootFiles :
            (FromDirectoryExpansion(f, base_query_path)
                 /\ PathStr(f) \in MatchPaths(matches)) =>
                WithinExclusive(Depth(f), config.SEARCH_MAX_DEPTH)

\* query q with the force prefix put before it when it has none, and taken
\* off it when it has one
WithOrWithoutForce(q) ==
    IF IsForceQuery(q) THEN Drop(q, Len(FORCE_INCLUDE_PREFIX)) ELSE FORCE_INCLUDE_PREFIX \o q

\* C29: with the ignore policy of the run held fixed, a query and the same
\* query behind the force prefix return the same list: what the last call
\* returned is what find_matches returns for its query with the prefix
\* added, or removed
C29_ForcePrefixChangesNoMatch ==
    (Called /\ ~IsForceQuery(Drop(LastQuery, Len(FORCE_INCLUDE_PREFIX)))) =>
        matches = find_matches(WithOrWithoutForce(LastQuery), Files, ignore_manager,
                               config.SEARCH_MAX_DEPTH)

\* 'force:n/l.js' has returned the file beneath the ignored directory n in
\* a run whose second query, without the prefix, returns a file as well
C29_Witness ==
    /\ pc = "done"
    /\ Len(queries) = 2
    /\ queries[1] = Q_force_n_l_js
    /\ is_ignored(PolicyWithoutForce, Path_n_l_js)
    /\ QueryMatches[1] = << [path |-> Path_n_l_js, line_ranges |-> <<>>] >>
    /\ ~IsForceQuery(queries[2])
    /\ matches # <<>>

\* C30: at every moment of a run the set of unique matched paths is the set
\* of keys of the consolidated mapping, so that the files_included_count of
\* the output is the number of consolidated entries, one for each path
C30_UniquePathsAreConsolidatedKeys ==
    /\ unique_matched_paths = DOMAIN consolidated_matches
    /\ files_included_count(unique_matched_paths)
           = Cardinality(all_matched_files_data(consolidated_matches))
    /\ \A p \in unique_matched_paths :
           Cardinality({ e \in all_matched_files_data(consolidated_matches) : e.path = p }) = 1

\* a run of two queries that both matched a.py and other files has come to
\* its end with several consolidated entries
C30_Witness ==
    /\ pc = "done"
    /\ Len(queries) = 2
    /\ Path_a_py \in MatchPaths(QueryMatches[1]) \cap MatchPaths(QueryMatches[2])
    /\ MatchPaths(QueryMatches[1]) # MatchPaths(QueryMatches[2])
    /\ files_included_count(unique_matched_paths) >= 3

====
